---- MODULE Spec2Model ----
(***************************************************************************)
(* A model of stdpipe/photometry.py: the zero-point fit match(), the two   *)
(* source extractors get_objects_sep() and get_objects_sextractor(), and   *)
(* two concurrent invocations of get_objects_sep() sharing the extraction  *)
(* engine's process-wide pixel-stack size.                                 *)
(*                                                                         *)
(* Magnitudes, fluxes and positions are integers in a fixed small unit.    *)
(* A floating-point value that may be NaN is a record [fin, v].            *)
(***************************************************************************)
EXTENDS Integers, Sequences, FiniteSets, TLC

VARIABLES
    \* ---- match() ----
    pc,         \* position in match(): "start", "loop", "export", "done"
    matched,    \* the pairs returned by h.match (indices into Field)
    threshold,  \* the threshold argument
    robust,     \* the robust argument
    use_color,  \* cat_color is not None
    idx0,       \* the base mask
    idx,        \* the active mask
    fit_idx,    \* the mask the last regression pass was fitted on
    iter,       \* number of completed rounds of the loop
    params,     \* C.params of the last regression pass
    result,     \* what match() returned: "pending", "None" or "model"
    \* ---- get_objects_sep() and get_objects_sextractor() ----
    fn,         \* the extractor called: "sep" or "sextractor"
    epc,        \* position in the extractor
    edge,       \* the edge argument
    sn,         \* the sn argument
    minnthresh, \* the minnthresh argument (sep)
    extra,      \* extra_params is not empty (sextractor)
    raw,        \* sep: obj0 of sep.extract; sextractor: the catalogue data
    sel,        \* sep: the rows of obj0 selected by idx
    meas,       \* sep: the selected rows with their aperture photometry
    obj,        \* the table built
    ret,        \* what the extractor returned: "pending", "None", "table"
    \* ---- concurrent invocations of get_objects_sep() ----
    pixstack,   \* the extraction engine's process-wide pixel-stack size
    ppc,        \* position of each invocation
    pshape,     \* image.shape of each invocation
    plarge,     \* use_mask_large of each invocation
    pseen       \* the pixel-stack sizes in effect at each one's sep.extract

mvars == <<pc, matched, threshold, robust, use_color, idx0, idx, fit_idx,
           iter, params, result>>

evars == <<fn, epc, edge, sn, minnthresh, extra, raw, sel, meas, obj, ret>>

pvars == <<pixstack, ppc, pshape, plarge, pseen>>

vars == <<mvars, evars, pvars>>

----------------------------------------------------------------------------
(* Floating-point values *)

F(n) == [fin |-> TRUE, v |-> n]

NaN == [fin |-> FALSE, v |-> 0]

isfinite(a) == a.fin

\* a - b in floating point: NaN if either operand is
Sub(a, b) == IF a.fin /\ b.fin THEN F(a.v - b.v) ELSE NaN

\* np.hypot(a, b) squared: NaN if either operand is
Hypot2(a, b) == IF a.fin /\ b.fin THEN F(a.v * a.v + b.v * b.v) ELSE NaN

----------------------------------------------------------------------------
(* match(): the zero-point fit *)

MaxIter == 5

MinPoints == 3

MaxThreshold == 2

\* The candidate object/catalogue pairs of the field.  h.match returns any
\* subset of them, depending on the coordinates and the search radius.
\* Stars 1..6 are eligible for the fit; 7..12 each break one condition
\* of the base mask (star 12 only when a colour term is used).  Every
\* finite zero_err is positive, so that the weights are finite.
Field == <<
    [omag |-> F(10), omag_err |-> F(2),  oflags |-> 0, cmag |-> F(12), cmag_err |-> F(0), ccolor |-> F(0)],
    [omag |-> F(10), omag_err |-> F(3),  oflags |-> 0, cmag |-> F(25), cmag_err |-> F(4), ccolor |-> F(1)],
    [omag |-> F(12), omag_err |-> F(2),  oflags |-> 0, cmag |-> F(13), cmag_err |-> F(0), ccolor |-> F(0)],
    [omag |-> F(9),  omag_err |-> F(6),  oflags |-> 0, cmag |-> F(32), cmag_err |-> F(8), ccolor |-> F(1)],
    [omag |-> F(11), omag_err |-> F(10), oflags |-> 0, cmag |-> F(33), cmag_err |-> F(0), ccolor |-> F(0)],
    [omag |-> F(10), omag_err |-> F(2),  oflags |-> 0, cmag |-> F(21), cmag_err |-> F(0), ccolor |-> F(1)],
    [omag |-> F(10), omag_err |-> F(10), oflags |-> 4, cmag |-> F(21), cmag_err |-> F(0), ccolor |-> F(0)],
    [omag |-> NaN,   omag_err |-> F(2),  oflags |-> 0, cmag |-> F(21), cmag_err |-> F(0), ccolor |-> F(0)],
    [omag |-> F(10), omag_err |-> NaN,   oflags |-> 0, cmag |-> F(21), cmag_err |-> F(0), ccolor |-> F(0)],
    [omag |-> F(10), omag_err |-> F(2),  oflags |-> 0, cmag |-> NaN,   cmag_err |-> F(0), ccolor |-> F(0)],
    [omag |-> F(10), omag_err |-> F(2),  oflags |-> 0, cmag |-> F(21), cmag_err |-> NaN,  ccolor |-> F(0)],
    [omag |-> F(10), omag_err |-> F(10), oflags |-> 0, cmag |-> F(21), cmag_err |-> F(0), ccolor |-> NaN]
>>

Stars == 1..Len(Field)

\* zero = cmag - omag
zero(i) == Sub(Field[i].cmag, Field[i].omag)

\* zero_err = np.hypot(omag_err, cmag_err), kept squared
zero_err2(i) == Hypot2(Field[i].omag_err, Field[i].cmag_err)

\* ccolor: the catalogue colour, zeros when no colour term is used
ccolor(i, color) == IF color THEN Field[i].ccolor ELSE F(0)

\* np.sum(mask)
Count(mask) == Cardinality(mask)

\* idx0 without the test of the object flags
BaseMaskNoFlags(m, color) ==
    {i \in m : /\ isfinite(Field[i].omag)
               /\ isfinite(Field[i].omag_err)
               /\ isfinite(Field[i].cmag)
               /\ isfinite(Field[i].cmag_err)
               /\ (color => isfinite(Field[i].ccolor))}

\* the initial mask idx0 over the matched pairs
BaseMask(m, color) ==
    {i \in m : /\ isfinite(Field[i].omag)
               /\ isfinite(Field[i].omag_err)
               /\ isfinite(Field[i].cmag)
               /\ isfinite(Field[i].cmag_err)
               /\ Field[i].oflags = 0
               /\ (color => isfinite(Field[i].ccolor))}

\* the test of the round with its limit one too low
TooFewOffByOne(mask) == Count(mask) < MinPoints - 1

\* np.sum(idx) < 3
TooFew(mask) == Count(mask) < MinPoints

RECURSIVE Gcd(_, _)
Gcd(a, b) == IF b = 0 THEN a ELSE Gcd(b, a % b)

RECURSIVE LcmOf(_)
LcmOf(S) ==
    IF S = {} THEN 1
    ELSE LET x == CHOOSE y \in S : TRUE
             r == LcmOf(S \ {x})
         IN (x * r) \div Gcd(x, r)

\* weights = 1.0/zero_err**2, all multiplied by one common factor so that
\* they are integers (a weighted fit does not change under such a factor)
WeightScale ==
    LcmOf({zero_err2(i).v : i \in {j \in Stars : zero_err2(j).fin /\ zero_err2(j).v > 0}})

weights(i) == WeightScale \div zero_err2(i).v

\* np.sum(weights[mask])
RECURSIVE SumW(_)
SumW(mask) ==
    IF mask = {} THEN 0
    ELSE LET x == CHOOSE y \in mask : TRUE
         IN weights(x) + SumW(mask \ {x})

\* np.sum(weights[mask]*zero[mask])
RECURSIVE SumWZ(_)
SumWZ(mask) ==
    IF mask = {} THEN 0
    ELSE LET x == CHOOSE y \in mask : TRUE
         IN weights(x) * zero(x).v + SumWZ(mask \ {x})

\* sm.WLS(zero[idx], X[idx], weights=weights[idx]).fit() for a constant
\* model: the weighted mean an/ad of zero over the mask
WLSFit(mask) == [an |-> SumWZ(mask), ad |-> SumW(mask), b |-> 0]

ColorTerms == {0, 1}

\* The coefficients a regression pass on mask can return.  The weighted
\* least-squares fit of the constant model is computed exactly.  The robust
\* M-estimator (sm.RLM) and the fits with a colour column are solved by the
\* external library and are not computed here: their constant term is a
\* location estimate taking the value of any one of the fitted zeros, their
\* colour term any of ColorTerms.
Solve(mask, rob, color) ==
    IF ~rob /\ ~color
    THEN {WLSFit(mask)}
    ELSE [an : {zero(i).v : i \in mask}, ad : {1},
          b : IF color THEN ColorTerms ELSE {0}]

\* np.abs((zero - zero_model)/zero_err) < thr for pair i, where
\* zero_model = an/ad + b*ccolor; a comparison with NaN is false
ResidualOK(i, C, thr, color) ==
    /\ zero(i).fin /\ zero_err2(i).fin /\ ccolor(i, color).fin
    /\ zero_err2(i).v > 0
    /\ LET r == zero(i).v * C.ad - C.an - C.b * ccolor(i, color).v * C.ad
       IN r * r < thr * thr * zero_err2(i).v * C.ad * C.ad

\* the new mask without the "if threshold" guard
NewMaskNoGuard(base, C, thr, color) ==
    {i \in base : ResidualOK(i, C, thr, color)}

\* the new mask taken from the residuals of all matched rows, not idx0's
NewMaskAllRows(base, C, thr, color) ==
    IF thr # 0
    THEN {i \in matched : ResidualOK(i, C, thr, color)}
    ELSE base

\* idx = idx0.copy(); if threshold: idx[idx0] &= (residual test)[idx0]
NewMask(base, C, thr, color) ==
    IF thr # 0
    THEN {i \in base : ResidualOK(i, C, thr, color)}
    ELSE base

\* if not threshold: break, and the end of range(5)
LoopEnds(thr, n) == thr = 0 \/ n = MaxIter

NoParams == [an |-> 0, ad |-> 1, b |-> 0]

MInit ==
    /\ pc = "start"
    /\ matched \in SUBSET Stars
    /\ threshold \in 0..MaxThreshold
    /\ robust \in BOOLEAN
    /\ use_color \in BOOLEAN
    /\ idx0 = {}
    /\ idx = {}
    /\ fit_idx = {}
    /\ iter = 0
    /\ params = NoParams
    /\ result = "pending"

\* lines 325-371: the matched pairs, zero, zero_err, idx0, idx
Prepare ==
    /\ pc = "start"
    /\ idx0' = BaseMask(matched, use_color)
    /\ idx' = BaseMask(matched, use_color)
    /\ pc' = "loop"
    /\ UNCHANGED <<matched, threshold, robust, use_color, fit_idx, iter, params, result>>
    /\ UNCHANGED <<evars, pvars>>

\* lines 374-377: too few points at the start of a round
RoundFail ==
    /\ pc = "loop"
    /\ TooFew(idx)
    /\ result' = "None"
    /\ pc' = "done"
    /\ UNCHANGED <<matched, threshold, robust, use_color, idx0, idx, fit_idx, iter, params>>
    /\ UNCHANGED <<evars, pvars>>

\* lines 379-394: one regression pass and the new active mask
Round ==
    /\ pc = "loop"
    /\ ~TooFew(idx)
    /\ \E C \in Solve(idx, robust, use_color) :
          /\ params' = C
          /\ fit_idx' = idx
          /\ idx' = NewMask(idx0, C, threshold, use_color)
    /\ iter' = iter + 1
    /\ pc' = IF LoopEnds(threshold, iter + 1) THEN "export" ELSE "loop"
    /\ UNCHANGED <<matched, threshold, robust, use_color, idx0, result>>
    /\ UNCHANGED <<evars, pvars>>

\* lines 396-426: the model is returned with the last mask
Export ==
    /\ pc = "export"
    /\ result' = "model"
    /\ pc' = "done"
    /\ UNCHANGED <<matched, threshold, robust, use_color, idx0, idx, fit_idx, iter, params>>
    /\ UNCHANGED <<evars, pvars>>

MNext == Prepare \/ RoundFail \/ Round \/ Export

\* no call of match() is in progress
MIdle ==
    /\ pc = "idle" /\ matched = {} /\ threshold = 0 /\ robust = FALSE
    /\ use_color = FALSE /\ idx0 = {} /\ idx = {} /\ fit_idx = {}
    /\ iter = 0 /\ params = NoParams /\ result = "pending"

----------------------------------------------------------------------------
(* get_objects_sep() and get_objects_sextractor(): source extraction *)

MaxCand == 2

MaxEdge == 1

MaxSN == 2

\* image.shape: rows, columns
image_shape == <<4, 4>>

ImgH == image_shape[1]

ImgW == image_shape[2]

\* Positions are counted in half pixels: a coordinate c stands for c/2.
\* np.round rounds a half to the even neighbour.
np_round(c) ==
    LET q == c \div 2
    IN IF c % 2 = 0 THEN q
       ELSE IF q % 2 = 0 THEN q ELSE q + 1

\* an interior pixel, in half pixels
Mid == 2 * (ImgW \div 2)

\* the positions sep.extract may report: every half pixel of the middle
\* row, and the first and last pixel of the middle column
SepPositions ==
    {<<x, Mid>> : x \in 0..(2 * (ImgW - 1))} \cup {<<Mid, 0>>, <<Mid, 2 * (ImgH - 1)>>}

\* a row of obj0: position and number of pixels above the threshold
SepCands == [x : {p[1] : p \in SepPositions}, y : {p[2] : p \in SepPositions},
             tnpix : {1, 2}]

\* sep.extract lists the objects in the order it meets them in the image
ScanOrder(a, b) ==
    \/ a.y < b.y
    \/ a.y = b.y /\ a.x < b.x
    \/ a.y = b.y /\ a.x = b.x /\ a.tnpix <= b.tnpix

\* the results sep.extract can return: up to MaxCand objects
SepExtract ==
    {s \in UNION {[1..n -> {c \in SepCands : <<c.x, c.y>> \in SepPositions}] : n \in 0..MaxCand} :
        \A k \in 1..(Len(s) - 1) : ScanOrder(s[k], s[k + 1])}

\* line 100: not too close to the frame edges
SepEdgeOK(c, e) ==
    /\ np_round(c.x) > e
    /\ np_round(c.y) > e
    /\ np_round(c.x) < ImgW - e
    /\ np_round(c.y) < ImgH - e

\* lines 100-103: idx
SepSelected(c, e, mn) ==
    /\ SepEdgeOK(c, e)
    /\ (mn # 0 => c.tnpix >= mn)

\* 2.5/np.log(10) = 1.0857...
MagErrNum == 10857

MagErrDen == 10000

\* lines 115-118: magerr, the fraction n/d; zero where flux <= 0
MagErr(flux, fluxerr) ==
    IF flux > 0
    THEN [n |-> MagErrNum * fluxerr, d |-> MagErrDen * flux]
    ELSE [n |-> 0, d |-> 1]

\* magerr < 1.0/s
MagErrBelow(m, s) == m.n * s < m.d

\* the (flux, fluxerr) sep.sum_circle can return for an object
Photometry == {<<-1, 1>>, <<0, 1>>, <<1, 0>>, <<2, 0>>, <<2, 1>>}

\* the quality cut without the test of the flux
QualityOKNoFlux(r, s) == MagErrBelow(r.magerr, s)

\* line 126: fidx
QualityOK(r, s) == r.flux > 0 /\ MagErrBelow(r.magerr, s)

\* the rows of t in order, inserted one by one into a table ascending in
\* flux, each after the rows of equal flux: a stable argsort
RECURSIVE ArgsortFlux(_)
ArgsortFlux(t) ==
    IF t = <<>> THEN <<>>
    ELSE LET n == Len(t)
             done == ArgsortFlux(SubSeq(t, 1, n - 1))
             k == Cardinality({j \in 1..(n - 1) : done[j].flux <= t[n].flux})
         IN SubSeq(done, 1, k) \o <<t[n]>> \o SubSeq(done, k + 1, n - 1)

Reverse(t) == [k \in 1..Len(t) |-> t[Len(t) + 1 - k]]

\* a sort that forgets reverse=True
SortAscending(t) == ArgsortFlux(t)

\* obj.sort('flux', reverse=True)
SortFluxReverse(t) == Reverse(ArgsortFlux(t))

\* the positions in SExtractor's catalogue, 1-based, in half pixels: an
\* interior pixel, the first column, the last row
SexPositions == {<<Mid, Mid>>, <<2, Mid>>, <<Mid, 2 * ImgH>>}

\* a record of out.cat
SexRecords ==
    [pos : SexPositions, flux : {0, 1, 2},
     magerr : {[n |-> 1, d |-> 4], [n |-> 1, d |-> 1]}]

\* the catalogues the SExtractor run can write: up to MaxCand records
SexCatalogues == UNION {[1..n -> SexRecords] : n \in 0..MaxCand}

\* lines 244-252: idx, for a scalar aperture
SexSelected(d, e, s) ==
    /\ d.pos[1] > 2 * e /\ d.pos[1] < 2 * (ImgW - e)
    /\ d.pos[2] > 2 * e /\ d.pos[2] < 2 * (ImgH - e)
    /\ MagErrBelow(d.magerr, s)
    /\ d.flux > 0

\* line 254: data = data[idx], each record with its place in out.cat
SexData(cat, e, s) ==
    SelectSeq([k \in 1..Len(cat) |-> [rec |-> k, d |-> cat[k]]],
              LAMBDA r : SexSelected(r.d, e, s))

\* lines 266-274: the table built from data, in data's order
SexTable(data) ==
    [k \in 1..Len(data) |->
        [x |-> data[k].d.pos[1] - 2, y |-> data[k].d.pos[2] - 2,
         flux |-> data[k].d.flux, magerr |-> data[k].d.magerr,
         rec |-> data[k].rec, extra_rec |-> 0]]

\* lines 280-281: obj[_] = data[_], row k of the table taking the value
\* of row k of data
SexExtraColumns(t, data, ex) ==
    IF ex
    THEN [k \in 1..Len(t) |-> [t[k] EXCEPT !.extra_rec = data[k].rec]]
    ELSE t

EInit ==
    /\ fn \in {"sep", "sextractor"}
    /\ epc = "start"
    /\ edge \in 0..MaxEdge
    /\ sn \in 1..MaxSN
    /\ minnthresh \in IF fn = "sep" THEN {0, 2} ELSE {0}
    /\ extra \in IF fn = "sextractor" THEN BOOLEAN ELSE {FALSE}
    /\ raw = <<>>
    /\ sel = <<>>
    /\ meas = <<>>
    /\ obj = <<>>
    /\ ret = "pending"

\* lines 57-81: the detection pass
SepDetect ==
    /\ fn = "sep" /\ epc = "start"
    /\ raw' \in SepExtract
    /\ epc' = "detected"
    /\ UNCHANGED <<fn, edge, sn, minnthresh, extra, sel, meas, obj, ret>>
    /\ UNCHANGED <<mvars, pvars>>

\* lines 97-103: the objects kept by idx
SepSelect ==
    /\ fn = "sep" /\ epc = "detected"
    /\ sel' = SelectSeq(raw, LAMBDA c : SepSelected(c, edge, minnthresh))
    /\ epc' = "selected"
    /\ UNCHANGED <<fn, edge, sn, minnthresh, extra, raw, meas, obj, ret>>
    /\ UNCHANGED <<mvars, pvars>>

\* lines 108-118: aperture photometry and magnitude errors
SepMeasure ==
    /\ fn = "sep" /\ epc = "selected"
    /\ \E ph \in [1..Len(sel) -> Photometry] :
          meas' = [k \in 1..Len(sel) |->
                      [x |-> sel[k].x, y |-> sel[k].y,
                       flux |-> ph[k][1], fluxerr |-> ph[k][2],
                       magerr |-> MagErr(ph[k][1], ph[k][2])]]
    /\ epc' = "measured"
    /\ UNCHANGED <<fn, edge, sn, minnthresh, extra, raw, sel, obj, ret>>
    /\ UNCHANGED <<mvars, pvars>>

\* lines 126-156: quality cut, table, sort, return
SepFinish ==
    /\ fn = "sep" /\ epc = "measured"
    /\ obj' = SortFluxReverse(SelectSeq(meas, LAMBDA r : QualityOK(r, sn)))
    /\ ret' = "table"
    /\ epc' = "done"
    /\ UNCHANGED <<fn, edge, sn, minnthresh, extra, raw, sel, meas>>
    /\ UNCHANGED <<mvars, pvars>>

\* lines 159-170: no SExtractor binary is found
SexNoBinary ==
    /\ fn = "sextractor" /\ epc = "start"
    /\ ret' = "None"
    /\ epc' = "done"
    /\ UNCHANGED <<fn, edge, sn, minnthresh, extra, raw, sel, meas, obj>>
    /\ UNCHANGED <<mvars, pvars>>

\* lines 239, 288-303: the SExtractor run fails
SexRunFails ==
    /\ fn = "sextractor" /\ epc = "start"
    /\ ret' = "None"
    /\ epc' = "done"
    /\ UNCHANGED <<fn, edge, sn, minnthresh, extra, raw, sel, meas, obj>>
    /\ UNCHANGED <<mvars, pvars>>

\* lines 239-242: the SExtractor run writes out.cat
SexRun ==
    /\ fn = "sextractor" /\ epc = "start"
    /\ raw' \in SexCatalogues
    /\ epc' = "ran"
    /\ UNCHANGED <<fn, edge, sn, minnthresh, extra, sel, meas, obj, ret>>
    /\ UNCHANGED <<mvars, pvars>>

\* lines 244-303: selection, table, sort, extra columns, return
SexFinish ==
    /\ fn = "sextractor" /\ epc = "ran"
    /\ LET data == SexData(raw, edge, sn)
       IN obj' = SexExtraColumns(SortFluxReverse(SexTable(data)), data, extra)
    /\ ret' = "table"
    /\ epc' = "done"
    /\ UNCHANGED <<fn, edge, sn, minnthresh, extra, raw, sel, meas>>
    /\ UNCHANGED <<mvars, pvars>>

ENext ==
    \/ SepDetect \/ SepSelect \/ SepMeasure \/ SepFinish
    \/ SexNoBinary \/ SexRunFails \/ SexRun \/ SexFinish

\* no extractor call is in progress
EIdle ==
    /\ fn = "none" /\ epc = "idle" /\ edge = 0 /\ sn = 1 /\ minnthresh = 0
    /\ extra = FALSE /\ raw = <<>> /\ sel = <<>> /\ meas = <<>>
    /\ obj = <<>> /\ ret = "pending"

----------------------------------------------------------------------------
(* Two concurrent invocations of get_objects_sep() in one process *)

Calls == {1, 2}

\* the shapes of the images the invocations are given
Shapes == {<<2, 2>>, <<2, 3>>, <<3, 3>>}

\* image.shape[0]*image.shape[1]
PixCount(shape) == shape[1] * shape[2]

PInit ==
    /\ pixstack = "default"
    /\ ppc = [i \in Calls |-> "background"]
    /\ pshape \in [Calls -> Shapes]
    /\ plarge \in [Calls -> BOOLEAN]
    /\ pseen = [i \in Calls |-> {}]

\* lines 57-61: the background map, on the invocation's own arrays
Background(i) ==
    /\ ppc[i] = "background"
    /\ ppc' = [ppc EXCEPT ![i] = "config"]
    /\ UNCHANGED <<pixstack, pshape, plarge, pseen>>
    /\ UNCHANGED <<mvars, evars>>

\* line 63: sep.set_extract_pixstack(image.shape[0]*image.shape[1])
SetPixstack(i) ==
    /\ ppc[i] = "config"
    /\ pixstack' = PixCount(pshape[i])
    /\ ppc' = [ppc EXCEPT ![i] = IF plarge[i] THEN "initial" ELSE "final"]
    /\ UNCHANGED <<pshape, plarge, pseen>>
    /\ UNCHANGED <<mvars, evars>>

\* lines 65-76: the first sep.extract, when use_mask_large is set
ExtractInitial(i) ==
    /\ ppc[i] = "initial"
    /\ pseen' = [pseen EXCEPT ![i] = @ \cup {pixstack}]
    /\ ppc' = [ppc EXCEPT ![i] = "final"]
    /\ UNCHANGED <<pixstack, pshape, plarge>>
    /\ UNCHANGED <<mvars, evars>>

\* line 81: the final sep.extract
ExtractFinal(i) ==
    /\ ppc[i] = "final"
    /\ pseen' = [pseen EXCEPT ![i] = @ \cup {pixstack}]
    /\ ppc' = [ppc EXCEPT ![i] = "measure"]
    /\ UNCHANGED <<pixstack, pshape, plarge>>
    /\ UNCHANGED <<mvars, evars>>

\* lines 83-156: the rest of the invocation, on its own arrays
Finish(i) ==
    /\ ppc[i] = "measure"
    /\ ppc' = [ppc EXCEPT ![i] = "done"]
    /\ UNCHANGED <<pixstack, pshape, plarge, pseen>>
    /\ UNCHANGED <<mvars, evars>>

PNext ==
    \E i \in Calls :
        \/ Background(i) \/ SetPixstack(i) \/ ExtractInitial(i)
        \/ ExtractFinal(i) \/ Finish(i)

\* no invocation is in progress
PIdle ==
    /\ pixstack = "default"
    /\ ppc = [i \in Calls |-> "idle"]
    /\ pshape = [i \in Calls |-> <<2, 2>>]
    /\ plarge = [i \in Calls |-> FALSE]
    /\ pseen = [i \in Calls |-> {}]

----------------------------------------------------------------------------
(* Specifications *)

\* a call of match()
Init == MInit /\ EIdle /\ PIdle

Spec == Init /\ [][MNext]_vars

\* the same call with weighted least squares and no colour term, where
\* every regression pass is computed exactly
InitWLS == MInit /\ ~robust /\ ~use_color /\ EIdle /\ PIdle

SpecWLS == InitWLS /\ [][MNext]_vars

\* a call of get_objects_sep() or get_objects_sextractor()
InitExtract == EInit /\ MIdle /\ PIdle

SpecExtract == InitExtract /\ [][ENext]_vars

\* two invocations of get_objects_sep() running concurrently
InitPar == PInit /\ MIdle /\ EIdle

SpecPar == InitPar /\ [][PNext]_vars

----------------------------------------------------------------------------
(* Properties of match() *)

\* C1: a regression pass is only ever fitted on a mask with at least 3 true
\* entries; a round that starts with fewer than 3 returns None without a
\* regression pass, which covers an empty match set and a base mask with
\* fewer than 3 entries (None before any pass).
C1_FitNeedsThreePoints ==
    /\ [](iter > 0 => Cardinality(fit_idx) >= 3)
    /\ []((pc = "done" /\ (matched = {} \/ Cardinality(idx0) < 3))
            => (result = "None" /\ iter = 0))
    /\ [][(pc = "loop" /\ Cardinality(idx) < 3)
            => (pc' = "done" /\ result' = "None" /\ iter' = iter
                /\ fit_idx' = fit_idx /\ params' = params)]_vars

\* a call that fails in a later round, after a regression pass has run
C1_Witness == pc = "done" /\ result = "None" /\ iter >= 1

\* C2: with threshold 0 and at least 3 base-eligible pairs there is exactly
\* one regression pass, fitted on idx0; nothing is rejected, the returned
\* idx equals idx0 and the coefficients are those of the solve on idx0.
C2_ZeroThresholdSinglePass ==
    /\ (threshold = 0 => iter <= 1)
    /\ (pc = "done" /\ threshold = 0 /\ Cardinality(idx0) >= 3)
         => /\ result = "model"
            /\ iter = 1
            /\ fit_idx = idx0
            /\ idx = idx0
            /\ params \in Solve(idx0, robust, use_color)

\* a returned model that keeps a pair a threshold of 1 would have rejected
C2_Witness ==
    /\ pc = "done" /\ threshold = 0 /\ result = "model"
    /\ ~robust /\ ~use_color
    /\ Cardinality(idx0) >= 3
    /\ \E i \in idx : ~ResidualOK(i, params, 1, FALSE)

\* C3 as stated: with threshold > 0 the count of the active mask never
\* grows from one round to the next (fit_idx is the mask the round began
\* with, idx the mask it ended with).
C3_CountNonIncreasing ==
    (threshold > 0 /\ iter >= 1) => Cardinality(idx) <= Cardinality(fit_idx)

\* C3 as amended: the count of the active mask never exceeds that of idx0,
\* in any round and for the mask each pass is fitted on.
C3_CountBoundedByBase ==
    /\ Cardinality(idx) <= Cardinality(idx0)
    /\ Cardinality(fit_idx) <= Cardinality(idx0)

\* a round with threshold > 0 that ends with more active points than it
\* began with, still no more than idx0 has
C3_Witness ==
    /\ threshold > 0 /\ iter >= 2
    /\ Cardinality(idx) > Cardinality(fit_idx)
    /\ Cardinality(idx) < Cardinality(idx0)

\* C4: a returned model carries a final mask idx with at least 3 entries.
C4_ModelHasThreePoints ==
    (pc = "done" /\ result = "model") => Cardinality(idx) >= 3

\* C9: the active mask and every fitted mask are subsets of idx0, idx0 is
\* constant once computed, and no flagged or non-finite pair is ever
\* fitted or returned in idx; a rejected pair stays eligible (witness).
C9_ActiveWithinBase ==
    /\ [](pc # "start" =>
            /\ idx \subseteq idx0
            /\ fit_idx \subseteq idx0
            /\ idx0 \subseteq matched
            /\ \A i \in idx \cup fit_idx :
                  /\ Field[i].oflags = 0
                  /\ Field[i].omag.fin /\ Field[i].omag_err.fin
                  /\ Field[i].cmag.fin /\ Field[i].cmag_err.fin
                  /\ (use_color => Field[i].ccolor.fin))
    /\ [][pc # "start" => idx0' = idx0]_vars

\* a base-eligible pair rejected in one round and active again in the next
C9_Witness ==
    /\ iter >= 2
    /\ \E i \in idx0 : i \notin fit_idx /\ i \in idx

----------------------------------------------------------------------------
(* Properties of the extractors *)

\* C5: no row of the table returned by get_objects_sep, or by
\* get_objects_sextractor with a scalar aperture, has flux <= 0 or
\* magerr >= 1/sn.
C5_QualityCut ==
    ret = "table" =>
        \A k \in 1..Len(obj) :
            /\ ~(obj[k].flux <= 0)
            /\ ~(obj[k].magerr.n * sn >= obj[k].magerr.d)

\* get_objects_sep measured an object with non-positive flux, whose magerr
\* stayed at the zero default, and returned a table without it
C5_Witness ==
    /\ fn = "sep" /\ ret = "table"
    /\ \E k \in 1..Len(meas) : meas[k].flux <= 0 /\ meas[k].magerr.n = 0
    /\ Len(obj) >= 1
    /\ Len(obj) < Len(meas)

\* C6: the returned table is ordered by non-increasing flux.
C6_SortedByFlux ==
    ret = "table" =>
        \A k \in 1..(Len(obj) - 1) : obj[k].flux >= obj[k + 1].flux

\* two objects measured in ascending flux are returned, brightest first
C6_Witness ==
    /\ fn = "sep" /\ ret = "table"
    /\ Len(meas) = 2 /\ meas[1].flux < meas[2].flux
    /\ Len(obj) = 2 /\ obj[1].flux > obj[2].flux

\* C7: no row returned by get_objects_sep lies within edge pixels of the
\* near border (round(x) <= edge, round(y) <= edge) or of the far border
\* ((W-1) - round(x) <= edge, (H-1) - round(y) <= edge).
C7_EdgeRejection ==
    (fn = "sep" /\ ret = "table") =>
        \A k \in 1..Len(obj) :
            LET rx == IF obj[k].x % 2 = 0 THEN obj[k].x \div 2
                      ELSE IF (obj[k].x \div 2) % 2 = 0 THEN obj[k].x \div 2
                      ELSE obj[k].x \div 2 + 1
                ry == IF obj[k].y % 2 = 0 THEN obj[k].y \div 2
                      ELSE IF (obj[k].y \div 2) % 2 = 0 THEN obj[k].y \div 2
                      ELSE obj[k].y \div 2 + 1
            IN /\ ~(rx <= edge)
               /\ ~(ry <= edge)
               /\ ~((image_shape[2] - 1) - rx <= edge)
               /\ ~((image_shape[1] - 1) - ry <= edge)

\* C10: with extra_params, every row of the table returned by
\* get_objects_sextractor holds in its extra columns the values of the
\* catalogue record its x, y, flux and mag come from.
C10_ExtraColumnsSameRecord ==
    (fn = "sextractor" /\ ret = "table" /\ extra) =>
        \A k \in 1..Len(obj) : obj[k].extra_rec = obj[k].rec

----------------------------------------------------------------------------
(* Properties of concurrent invocations *)

\* C8: concurrent invocations of get_objects_sep do not interfere: the
\* pixel-stack size in effect during an invocation's detection passes is
\* the one it configured for its own image.
C8_NoInterference ==
    \A i \in Calls : \A size \in pseen[i] : size = pshape[i][1] * pshape[i][2]

====
